---- MODULE Spec2Model ----
(***************************************************************************)
(* The request-to-caption pipeline of the whisper.cpp HTTP API.            *)
(*                                                                         *)
(* Two copies of the service exist in the repository, src/api/app.py and   *)
(* src/whisper_api/app.py; the variable impl says which one is deployed.   *)
(* Both are FastAPI applications started by uvicorn.run(app): one process, *)
(* one event loop.  A handler (async def) runs on the loop thread and      *)
(* gives the loop back only at an await; the only await of transcribe is   *)
(* audio.read(...) in the staging loop.  subprocess.run is a synchronous   *)
(* call: the handler, and with it the loop thread, waits inside it.        *)
(*                                                                         *)
(* File names are sequences of one-character strings, so that the string   *)
(* operations of the code (concatenation, Path.suffix, Path.with_suffix,   *)
(* str.lower) are computed and two paths are equal exactly when the        *)
(* strings are.  The temporary directory prefix is the same for every      *)
(* path and is left out.  The random part of a temporary name is one       *)
(* element of the sequence.  Process output (stderr) is its length.        *)
(* Path.unlink of a file the process itself created is taken to succeed.   *)
(* tempfile promises only that the name it returns (random part plus       *)
(* suffix) names no existing file: the random part is any of Stems.        *)
(*                                                                         *)
(* Spec is the server with its requests in flight.  The functions that     *)
(* have no state are run on their own, from every argument of a bounded    *)
(* set: SpecTime calls _time_to_ms, SpecParse runs the extraction step of  *)
(* transcribe (_parse_whisper_output, full_text, the response), SpecBoth   *)
(* gives one request to both implementations in the same environment.      *)
(* arg and ret hold the argument and the result of such a call.  JSON      *)
(* values are records tagged by their type; a probability is a number of   *)
(* thousandths.                                                            *)
(***************************************************************************)
EXTENDS Integers, Sequences, FiniteSets, TLC

\* ------------------------------------------------------------------ bounds
NumStems == 2     \* random names tempfile can draw
MaxChunks == 1    \* chunks of at most 1 MiB an upload holds

\* ------------------------------------------------------- program constants
ConvDetailLen == 200    \* proc.stderr[:200]
EngDetailLen == 300     \* proc.stderr[:300]

\* two clients, each sending one request; the handlers of both can be in
\* flight at once
Reqs == {1, 2}
StemNames == <<"tmpA", "tmpB", "tmpC", "tmpD", "tmpE">>
Stems == {StemNames[i] : i \in 1..NumStems}

None == "None"
NoPath == <<>>

\* ------------------------------------------------------------ string helpers
WAV == <<".", "w", "a", "v">>
JSON == <<".", "j", "s", "o", "n">>

\* the file names a client may declare; <<>> is a missing filename
Filenames ==
  { <<>>,
    <<"a">>,
    <<"a", ".", "w", "a", "v">>,
    <<"a", ".", "W", "A", "V">>,
    <<"a", ".", "m", "p", "3">>,
    <<"a">> \o JSON }

\* what a client may send under a file name: audio ("upload"), and under a
\* .json name a JSON document as well
UploadBodies(filename) ==
  IF filename = <<"a">> \o JSON THEN {"upload", "upload_json"} ELSE {"upload"}

Uploads == {"upload", "upload_json"}

\* lengths of the diagnostic output a process may leave on stderr
StderrLens == {120, 450}

\* str.rfind(".") counted from 1, 0 when there is no dot
LastDot(s) ==
  LET dots == {i \in 1..Len(s) : s[i] = "."}
  IN IF dots = {} THEN 0 ELSE CHOOSE i \in dots : \A j \in dots : j <= i

\* pathlib: PurePath.suffix
PathSuffix(name) ==
  LET i == LastDot(name)
  IN IF i > 1 /\ i < Len(name) THEN SubSeq(name, i, Len(name)) ELSE <<>>

\* pathlib: PurePath.with_suffix
WithSuffix(p, sfx) ==
  SubSeq(p, 1, Len(p) - Len(PathSuffix(p))) \o sfx

LowerChar(c) ==
  CASE c = "W" -> "w" [] c = "A" -> "a" [] c = "V" -> "v" [] OTHER -> c

\* str.lower
Lower(s) == [i \in 1..Len(s) |-> LowerChar(s[i])]

\* s[:n] of a string of length len
Truncate(len, n) == IF len < n THEN len ELSE n

\* ------------------------------------------------------------------- state
VARIABLES
  impl,        \* "api" or "whisper_api": which app.py is deployed
  binExists,   \* Path(WHISPER_BIN).exists()
  binWhich,    \* shutil.which(WHISPER_BIN) is not None
  modelDirs,   \* the directories that hold ggml-<WHISPER_MODEL>.bin
  req,         \* per request: the handler's position, locals and response
  fs,          \* the files of the temporary directory
  arg,         \* the argument of a call of one of the module's functions
  ret          \* what that call returned

vars == <<impl, binExists, binWhich, modelDirs, req, fs, arg, ret>>

\* no function of the module is being called on its own
NoCall == [fn |-> "none"]

\* ------------------------------------------------------------ availability
\* find_model_path: the search order of each implementation
SearchDirsOf(im) ==
  IF im = "api"
  THEN <<"WHISPER_MODELS_DIR", "BASE_DIR/models", "~/.cache/whisper">>
  ELSE <<"WHISPER_MODELS_DIR", "~/.cache/whisper", "~/whisper.cpp/models",
         "/usr/local/share/whisper">>

SearchDirs == SearchDirsOf(impl)

\* a search that returns the first directory without looking into it
find_model_path_unchecked == SearchDirs[1]

\* find_model_path of an implementation
find_model_path_of(im) ==
  LET dirs == SearchDirsOf(im)
      hits == {i \in 1..Len(dirs) : dirs[i] \in modelDirs}
  IN IF hits = {} THEN None
     ELSE dirs[CHOOSE i \in hits : \A j \in hits : i <= j]

find_model_path == find_model_path_of(impl)

\* the binary the handler of an implementation will run, or None
binary_path_of(im) ==
  IF im = "api"
  THEN IF binExists THEN "WHISPER_BIN"
       ELSE IF binWhich THEN "which(WHISPER_BIN)" ELSE None
  ELSE IF binWhich THEN "which(WHISPER_BIN)" ELSE None

binary_path == binary_path_of(impl)

\* a probe that reports the binary without looking for it
whisper_found_unchecked == TRUE

\* whisper_found of /health
whisper_found ==
  IF impl = "api" THEN binWhich \/ binExists ELSE binWhich

\* ------------------------------------------------------------- file system
Exists(f, p) == \E x \in f : x.path = p

FileAt(f, p) == CHOOSE x \in f : x.path = p

WriteFile(f, p, r, w) ==
  {x \in f : x.path # p} \cup {[path |-> p, by |-> r, what |-> w]}

Unlink(f, P) == {x \in f : x.path \notin P}

\* a finally block that forgets the converted copy
CleanupPaths_without_wav(tmp_path) ==
  {tmp_path, tmp_path \o JSON, tmp_path \o WAV \o JSON}

\* the paths the finally block unlinks
CleanupPaths(tmp_path) ==
  {tmp_path, tmp_path \o WAV, tmp_path \o JSON, tmp_path \o WAV \o JSON}

Cleanup(f, tmp_path) == Unlink(f, CleanupPaths(tmp_path))

\* suffix = Path(audio.filename or "audio.wav").suffix or ".wav"
Suffix(filename) ==
  LET name == IF filename = <<>> THEN <<"a", "u", "d", "i", "o">> \o WAV
              ELSE filename
      s == PathSuffix(name)
  IN IF s = <<>> THEN WAV ELSE s

NeedsConversion(suffix) == Lower(suffix) # WAV

\* wav_path of a request
WavPath(q) ==
  IF NeedsConversion(q.suffix) THEN q.tmp_path \o WAV ELSE q.tmp_path

PrimaryJson(q) == WavPath(q) \o JSON
FallbackJson(q) == WithSuffix(WavPath(q), JSON)


\* --------------------------------------------------------------- requests
Blocked == {"converting", "invoking"}

IdleReq ==
  [ pc |-> "idle", kind |-> "none", suffix |-> <<>>, tmp_path |-> NoPath,
    chunks |-> 0, status |-> 0, detail |-> "", diag |-> 0,
    staging_failed |-> FALSE, conv |-> "none", eng |-> "none",
    conv_runs |-> 0, eng_runs |-> 0, staged |-> FALSE, wrote |-> "none",
    opened |-> "none", extracted |-> FALSE,
    whisper_found |-> FALSE, model_found |-> FALSE ]

\* the handler returns or raises: its locals are gone
Return(q) ==
  [q EXCEPT !.pc = "done", !.suffix = <<>>, !.tmp_path = NoPath, !.chunks = 0]

\* raise HTTPException(status_code, detail): FastAPI answers the status with
\* {"detail": ...}; diag is the length of the process output inside detail
HTTPError(q, code, detail, diag) ==
  [Return(q) EXCEPT !.status = code, !.detail = detail, !.diag = diag]

\* any other exception leaves the handler: the server answers a plain
\* 500 "Internal Server Error" that carries nothing of the exception
Unhandled(q) ==
  [Return(q) EXCEPT !.status = 500, !.detail = "Internal Server Error",
                    !.diag = 0]

\* the event loop thread is not inside a subprocess.run call
LoopFree == \A q \in Reqs : req[q].pc \notin Blocked

\* subprocess.run(cmd, ...) of the engine: the handler starts to wait
StartEngine(q) ==
  [q EXCEPT !.pc = "invoking", !.eng = "running", !.eng_runs = @ + 1]

\* subprocess.run(["ffmpeg", ...]): the handler starts to wait
StartConverter(q) ==
  [q EXCEPT !.pc = "converting", !.conv = "running", !.conv_runs = @ + 1]

\* json.load(f) of a file with this content returns
JsonLoadsOf(im, what) ==
  CASE what \in {"json_ok", "upload_json"} -> TRUE
    [] what = "json_badutf8" -> im = "api"    \* errors="replace"
    [] OTHER -> FALSE

JsonLoads(what) == JsonLoadsOf(impl, what)

\* a lookup that tries the fallback name first
LocateOutput_fallback_first(f, q) ==
  IF Exists(f, FallbackJson(q)) THEN "fallback"
  ELSE IF Exists(f, PrimaryJson(q)) THEN "primary"
  ELSE "none"

\* the existence checks after a zero exit: which candidate is opened
LocateOutput(f, q) ==
  IF Exists(f, PrimaryJson(q)) THEN "primary"
  ELSE IF Exists(f, FallbackJson(q)) THEN "fallback"
  ELSE "none"

\* json_file of a request that located its output
JsonFile(q, which) ==
  IF which = "primary" THEN PrimaryJson(q) ELSE FallbackJson(q)

\* ---------------------------------------------------------------- actions
\* requests are numbered in the order in which their handlers are called
Arrives(r) ==
  /\ req[r].pc = "idle"
  /\ \A q \in Reqs : q < r => req[q].pc # "idle"

\* GET /health
health(r) ==
  /\ Arrives(r)
  /\ LoopFree
  /\ req' = [req EXCEPT ![r] =
       [Return(@) EXCEPT !.kind = "health", !.status = 200,
                 !.detail = "ok", !.whisper_found = whisper_found,
                 !.model_found = (find_model_path # None)]]
  /\ UNCHANGED <<impl, binExists, binWhich, modelDirs, fs, arg, ret>>

\* POST /transcribe, from the call of the handler to its first await
transcribe_start(r) ==
  /\ Arrives(r)
  /\ LoopFree
  /\ LET q == [req[r] EXCEPT !.kind = "transcribe"]
     IN IF binary_path = None
        THEN /\ req' = [req EXCEPT ![r] =
                  HTTPError(q, 503, "whisper.cpp binary not found", 0)]
             /\ fs' = fs
        ELSE IF find_model_path = None
        THEN /\ req' = [req EXCEPT ![r] =
                  HTTPError(q, 503, "Whisper model not found", 0)]
             /\ fs' = fs
        ELSE \E filename \in Filenames, stem \in Stems :
               LET suffix == Suffix(filename)
                   tmp_path == <<stem>> \o suffix
               IN /\ ~Exists(fs, tmp_path)     \* O_EXCL
                  /\ \E body \in UploadBodies(filename) :
                       fs' = WriteFile(fs, tmp_path, r, body)
                  /\ req' = [req EXCEPT ![r] =
                       [q EXCEPT !.pc = "staging", !.suffix = suffix,
                                 !.tmp_path = tmp_path, !.staged = TRUE]]
  /\ UNCHANGED <<impl, binExists, binWhich, modelDirs, arg, ret>>

\* one turn of the staging loop, resumed after await audio.read(1024 * 1024)
transcribe_read(r) ==
  /\ req[r].pc = "staging"
  /\ LoopFree
  /\ LET q == req[r]
     IN \/ \* a chunk was read and written
           /\ q.chunks < MaxChunks
           /\ req' = [req EXCEPT ![r] = [q EXCEPT !.chunks = @ + 1]]
        \/ \* audio.read or tmp.write raised: the with block closes the file
           \* (delete=False) and the exception leaves the handler
           /\ req' = [req EXCEPT ![r] =
                [Unhandled(q) EXCEPT !.staging_failed = TRUE]]
        \/ \* end of the upload: the file is closed, the try block begins
           /\ req' = [req EXCEPT ![r] =
                IF NeedsConversion(q.suffix) THEN StartConverter(q)
                ELSE StartEngine(q)]
  /\ UNCHANGED <<impl, binExists, binWhich, modelDirs, fs, arg, ret>>

\* what one run of ffmpeg may do: how it ends, whether it leaves a (whole or
\* unfinished) output file, how much it prints on stderr
ConverterRuns ==
  [outcome : {"exit0"}, wrote : {TRUE}, len : {0}]
  \cup [outcome : {"nonzero"}, wrote : BOOLEAN, len : StderrLens]
  \cup [outcome : {"timeout"}, wrote : BOOLEAN, len : {0}]
  \cup [outcome : {"cannot_start"}, wrote : {FALSE}, len : {0}]

\* subprocess.run of ffmpeg ends; the handler goes on to the engine or fails
transcribe_after_ffmpeg(r) ==
  /\ req[r].pc = "converting"
  /\ \E run \in ConverterRuns :
       LET q == [req[r] EXCEPT !.conv = run.outcome]
           wav_path == q.tmp_path \o WAV
           fs1 == IF run.wrote THEN WriteFile(fs, wav_path, r, "wav") ELSE fs
       IN IF run.outcome = "exit0"
          THEN /\ req' = [req EXCEPT ![r] = StartEngine(q)]
               /\ fs' = fs1
          ELSE IF run.outcome = "nonzero"
          THEN /\ req' = [req EXCEPT ![r] =
                    HTTPError(q, 400, "Audio conversion failed",
                              Truncate(run.len, ConvDetailLen))]
               /\ fs' = Cleanup(fs1, q.tmp_path)
          ELSE \* TimeoutExpired, FileNotFoundError
               /\ req' = [req EXCEPT ![r] = Unhandled(q)]
               /\ fs' = Cleanup(fs1, q.tmp_path)
  /\ UNCHANGED <<impl, binExists, binWhich, modelDirs, arg, ret>>

EngWrites == {"none", "primary", "fallback", "both"}
JsonKinds == {"json_ok", "json_bad", "json_badutf8"}

\* what one run of the engine may do: how it ends, which output files it
\* leaves (a run that fails leaves none or unfinished ones), what they hold,
\* how much it prints on stderr
EngineRuns ==
  [outcome : {"exit0"}, where : EngWrites \ {"none"}, what : JsonKinds,
   len : {0}]
  \cup [outcome : {"exit0"}, where : {"none"}, what : {"json_bad"}, len : {0}]
  \cup [outcome : {"nonzero"}, where : {"none", "both"}, what : {"json_bad"},
        len : StderrLens]
  \cup [outcome : {"timeout"}, where : {"none", "both"}, what : {"json_bad"},
        len : {0}]

\* execvp of a binary that shutil.which does not resolve (a file that is not
\* executable, or a bare name that is only in the working directory) fails:
\* subprocess.run raises PermissionError or FileNotFoundError
EngineRunsHere ==
  IF binWhich THEN EngineRuns
  ELSE [outcome : {"cannot_start"}, where : {"none"}, what : {"json_bad"},
        len : {0}]

\* the engine's output files
EngineWrites(f, q, r, where, what) ==
  LET f1 == IF where \in {"primary", "both"}
            THEN WriteFile(f, PrimaryJson(q), r, what) ELSE f
  IN IF where \in {"fallback", "both"}
     THEN WriteFile(f1, FallbackJson(q), r, what) ELSE f1

\* the handler from the return of the engine's subprocess.run to its end
AfterEngine(q, f, len) ==
  IF q.eng \in {"timeout", "cannot_start"} THEN Unhandled(q)
  ELSE IF q.eng = "nonzero"
  THEN HTTPError(q, 500, "Whisper transcription failed",
                 Truncate(len, EngDetailLen))
  ELSE LET which == LocateOutput(f, q)
       IN IF which = "none"
          THEN HTTPError(q, 500, "Whisper did not produce JSON output", 0)
          ELSE IF ~JsonLoads(FileAt(f, JsonFile(q, which)).what)
          THEN [Unhandled(q) EXCEPT !.opened = which]
          ELSE [Return(q) EXCEPT !.status = 200, !.detail = "success",
                                 !.opened = which, !.extracted = TRUE]

\* subprocess.run of the engine ends
transcribe_after_whisper(r) ==
  /\ req[r].pc = "invoking"
  /\ \E run \in EngineRunsHere :
       LET q == [req[r] EXCEPT !.eng = run.outcome, !.wrote = run.where]
           fs1 == EngineWrites(fs, q, r, run.where, run.what)
       IN /\ req' = [req EXCEPT ![r] = AfterEngine(q, fs1, run.len)]
          /\ fs' = Cleanup(fs1, q.tmp_path)
  /\ UNCHANGED <<impl, binExists, binWhich, modelDirs, arg, ret>>

\* ----------------------------------------------------------- specification
ModelLayouts ==
  { {}, {"WHISPER_MODELS_DIR"}, {"BASE_DIR/models"},
    {"/usr/local/share/whisper"} }

Init ==
  /\ impl \in {"api", "whisper_api"}
  /\ binExists \in BOOLEAN
  /\ binWhich \in BOOLEAN
  /\ modelDirs \in ModelLayouts
  /\ req = [r \in Reqs |-> IdleReq]
  /\ fs = {}
  /\ arg = NoCall /\ ret = NoCall

Next ==
  \E r \in Reqs :
    \/ health(r)
    \/ transcribe_start(r)
    \/ transcribe_read(r)
    \/ transcribe_after_ffmpeg(r)
    \/ transcribe_after_whisper(r)

Spec == Init /\ [][Next]_vars


\* ------------------------------------------------------------------ claims
Returned(r) == req[r].kind = "transcribe" /\ req[r].pc = "done"

InFlight(r) == req[r].pc \in {"staging", "converting", "invoking"}

\* the files that request r, its converter or its engine wrote
FilesOf(r) == {x \in fs : x.by = r}

\* C1: once the handler of a /transcribe request has returned, whatever the
\* outcome, no temporary file written by the request, its converter or its
\* engine exists any more.
C1_NoTempFileOutlivesRequest ==
  \A r \in Reqs : Returned(r) => FilesOf(r) = {}

\* C2: when reading the upload or writing a chunk raises after the temporary
\* file was created, the request ends in an error and the partly written
\* temporary file is removed before the handler returns.
C2_StagingFailureCleansUp ==
  \A r \in Reqs :
    req[r].staging_failed =>
      /\ req[r].pc = "done"
      /\ req[r].status >= 400
      /\ {x \in FilesOf(r) : x.what \in Uploads} = {}

\* the availability check of the deployed implementation fails
BinaryMissing ==
  IF impl = "api" THEN ~binExists /\ ~binWhich ELSE ~binWhich

ModelMissing ==
  {SearchDirs[i] : i \in 1..Len(SearchDirs)} \cap modelDirs = {}

\* C3: when the binary cannot be resolved or the model file is in no search
\* directory, /transcribe answers 503, and a request answered 503 has created
\* no temporary file, read nothing of the upload into a file and started
\* neither the converter nor the engine.
C3_Unavailable503BeforeStaging ==
  \A r \in Reqs :
    Returned(r) =>
      /\ (BinaryMissing \/ ModelMissing) <=> req[r].status = 503
      /\ req[r].status = 503 =>
           /\ ~req[r].staged
           /\ req[r].chunks = 0
           /\ req[r].conv_runs = 0 /\ req[r].eng_runs = 0
           /\ FilesOf(r) = {}

C3_Witness ==
  \E r \in Reqs :
    /\ Returned(r) /\ req[r].status = 503
    /\ req[r].detail = "Whisper model not found"

\* C4: when the engine exits non-zero the request ends with status 500, the
\* staged upload and the converted copy are gone when the handler has
\* returned, and no output is opened and no caption extracted.
C4_EngineNonZero500AndCleanup ==
  \A r \in Reqs :
    req[r].eng = "nonzero" =>
      /\ req[r].pc = "done"
      /\ req[r].status = 500
      /\ req[r].opened = "none" /\ ~req[r].extracted
      /\ {x \in FilesOf(r) : x.what \in Uploads \cup {"wav"}} = {}

C4_Witness ==
  \E r \in Reqs :
    /\ req[r].eng = "nonzero" /\ req[r].conv = "exit0"
    /\ req[r].pc = "done"

\* C5: whenever the conversion fails (non-zero exit, timeout, or the
\* converter cannot be started) the request ends with status 400, never a
\* 5xx, and the engine is never invoked for it.
C5_ConversionFailureIs400 ==
  \A r \in Reqs :
    req[r].conv \in {"nonzero", "timeout", "cannot_start"} =>
      /\ req[r].status = 400
      /\ req[r].eng_runs = 0

\* C6: whenever the engine ends by non-zero exit or by timeout the request
\* ends with the structured 500 error whose message carries the engine's
\* diagnostic output cut to at most 300 characters.
C6_EngineFailureCarriesDiagnostic ==
  \A r \in Reqs :
    req[r].eng \in {"nonzero", "timeout"} =>
      /\ req[r].status = 500
      /\ req[r].detail = "Whisper transcription failed"
      /\ req[r].diag <= EngDetailLen

\* C7: after a zero exit the handler opens <audio path>.json when it exists
\* and the fallback name only otherwise; when neither exists the request ends
\* with a 500 whose message is not that of a failed engine run; a success
\* response comes only from a zero exit with one of the two files opened and
\* parsed.
C7_LocateOutput ==
  \A r \in Reqs :
    Returned(r) =>
      /\ req[r].status = 200 =>
           /\ req[r].eng = "exit0"
           /\ req[r].opened \in {"primary", "fallback"}
           /\ req[r].extracted
      /\ req[r].opened # "none" => req[r].eng = "exit0"
      /\ (req[r].eng = "exit0" /\ req[r].wrote \in {"primary", "both"}) =>
           req[r].opened = "primary"
      /\ (req[r].eng = "exit0" /\ req[r].wrote = "fallback") =>
           req[r].opened = "fallback"
      /\ (req[r].eng = "exit0" /\ req[r].opened = "none") =>
           /\ req[r].status = 500
           /\ req[r].detail = "Whisper did not produce JSON output"
           /\ req[r].detail # "Whisper transcription failed"

C7_Witness ==
  \E r, q \in Reqs :
    /\ Returned(r) /\ req[r].eng = "exit0" /\ req[r].opened = "none"
    /\ Returned(q) /\ req[q].status = 200 /\ req[q].opened = "fallback"

\* the temporary paths a request in flight uses
TempPaths(q) == {q.tmp_path, WavPath(q), PrimaryJson(q), FallbackJson(q)}

\* C8: two /transcribe requests in flight at the same time use disjoint sets
\* of temporary paths (staged upload, converted copy, primary and fallback
\* output candidates).
C8_TempPathsDisjoint ==
  \A r, q \in Reqs :
    (r # q /\ InFlight(r) /\ InFlight(q)) =>
      TempPaths(req[r]) \cap TempPaths(req[q]) = {}

\* a step of the handler of a request that has not been answered yet
Serve(q) == health(q) \/ transcribe_start(q) \/ transcribe_read(q)

\* C9: while one request waits for its converter or engine, any other request
\* that is not yet answered can be served.
C9_OthersServedWhileWaiting ==
  \A r, q \in Reqs :
    (r # q /\ req[r].pc \in Blocked /\ req[q].pc \in {"idle", "staging"}) =>
      ENABLED Serve(q)

\* C10: GET /health answers 200 with status "ok" whatever the configuration,
\* reports a binary that is neither at the path nor on the search path as
\* whisper_found = false and a model in no directory as model_found = false,
\* and leaves every file as it was.
C10_HealthAlwaysOk ==
  [][\A r \in Reqs :
       (req[r].pc = "idle" /\ req'[r].kind = "health") =>
         /\ req'[r].pc = "done"
         /\ req'[r].status = 200 /\ req'[r].detail = "ok"
         /\ (~binExists /\ ~binWhich) => ~req'[r].whisper_found
         /\ modelDirs = {} => ~req'[r].model_found
         /\ fs' = fs]_vars

C10_Witness ==
  \E r \in Reqs :
    /\ req[r].kind = "health" /\ req[r].status = 200
    /\ ~req[r].whisper_found /\ ~req[r].model_found

\* ---------------------------------------------------------------------------
\* Values of the engine's JSON artifact, as json.load returns them
\* ---------------------------------------------------------------------------

Str(s) == [t |-> "str", s |-> s]
Num(n) == [t |-> "num", n |-> n]
Null == [t |-> "null"]
\* the key is not in the dict
Missing == [t |-> "missing"]

\* dict.get(key, default)
Get(v, default) == IF v.t = "missing" THEN default ELSE v

\* what a call gives: a value, or an exception
Ok(n) == [ok |-> TRUE, n |-> n]
Raise == [ok |-> FALSE]

Whitespace == {" ", "\t", "\n"}

RECURSIVE LStrip(_)
LStrip(s) ==
  IF s # <<>> /\ Head(s) \in Whitespace THEN LStrip(Tail(s)) ELSE s

RECURSIVE RStrip(_)
RStrip(s) ==
  IF s # <<>> /\ s[Len(s)] \in Whitespace
  THEN RStrip(SubSeq(s, 1, Len(s) - 1)) ELSE s

Strip_left_only(s) == LStrip(s)

\* str.strip()
Strip(s) == RStrip(LStrip(s))

\* str.split(sep): the fields between the separators, one field when there
\* is no separator (also for the empty string)
RECURSIVE Split(_, _)
Split(s, sep) ==
  IF \A i \in 1..Len(s) : s[i] # sep THEN <<s>>
  ELSE LET i == CHOOSE k \in 1..Len(s) :
                  s[k] = sep /\ \A j \in 1..(k - 1) : s[j] # sep
       IN <<SubSeq(s, 1, i - 1)>> \o Split(SubSeq(s, i + 1, Len(s)), sep)

Digits == {"0", "1", "2", "3", "4", "5", "6", "7", "8", "9"}

DigitVal(c) ==
  CASE c = "0" -> 0 [] c = "1" -> 1 [] c = "2" -> 2 [] c = "3" -> 3
    [] c = "4" -> 4 [] c = "5" -> 5 [] c = "6" -> 6 [] c = "7" -> 7
    [] c = "8" -> 8 [] c = "9" -> 9

RECURSIVE DecVal(_, _)
DecVal(s, acc) ==
  IF s = <<>> THEN acc
  ELSE IF Head(s) = "_" THEN DecVal(Tail(s), acc)
  ELSE DecVal(Tail(s), 10 * acc + DigitVal(Head(s)))

\* int(str): surrounding whitespace is dropped, one sign is allowed, the
\* rest is decimal digits with single underscores between them; anything
\* else is a ValueError
PyInt(s) ==
  LET t == Strip(s)
      signed == t # <<>> /\ Head(t) \in {"-", "+"}
      body == IF signed THEN Tail(t) ELSE t
      wellformed ==
        /\ body # <<>>
        /\ body[1] \in Digits /\ body[Len(body)] \in Digits
        /\ \A i \in 1..Len(body) : body[i] \in Digits \cup {"_"}
        /\ \A i \in 1..(Len(body) - 1) : ~(body[i] = "_" /\ body[i + 1] = "_")
  IN IF ~wellformed THEN Raise
     ELSE IF signed /\ Head(t) = "-" THEN Ok(0 - DecVal(body, 0))
     ELSE Ok(DecVal(body, 0))

\* _time_to_ms without its except clause: the value, or the exception of
\* the first statement that fails
time_to_ms_try(time_str) ==
  IF time_str.t # "str" THEN Raise
  ELSE
    LET parts == Split(time_str.s, ":") IN
    IF Len(parts) < 3 THEN Raise
    ELSE
      LET h == PyInt(parts[1])
          m == PyInt(parts[2])
          s_parts == Split(parts[3], ".")
          sec == PyInt(s_parts[1])
          ms == IF Len(s_parts) > 1 THEN PyInt(s_parts[2]) ELSE Ok(0)
      IN IF h.ok /\ m.ok /\ sec.ok /\ ms.ok
         THEN Ok((h.n * 3600 + m.n * 60 + sec.n) * 1000 + ms.n)
         ELSE Raise

\* _time_to_ms: any exception gives 0
time_to_ms(time_str) ==
  LET v == time_to_ms_try(time_str) IN IF v.ok THEN v.n ELSE 0

\* the longest time string drawn from TimeChars
MaxTimeLen == 6

TimeChars == {"2", ":", ".", "b"}

TimeStrings == UNION {[1..n -> TimeChars] : n \in 0..MaxTimeLen}

\* "01:02:03.456", "00:00:00.000", "bad", "1:2", "1:2:3:4", "1:2:3",
\* "-1:00:00.000", " 1:2:3.4"
NamedTimes ==
  { <<"0", "1", ":", "0", "2", ":", "0", "3", ".", "4", "5", "6">>,
    <<"0", "0", ":", "0", "0", ":", "0", "0", ".", "0", "0", "0">>,
    <<"b", "a", "d">>,
    <<"1", ":", "2">>,
    <<"1", ":", "2", ":", "3", ":", "4">>,
    <<"1", ":", "2", ":", "3">>,
    <<"-", "1", ":", "0", "0", ":", "0", "0", ".", "0", "0", "0">>,
    <<" ", "1", ":", "2", ":", "3", ".", "4">> }

TimeInputs ==
  {Str(s) : s \in TimeStrings \cup NamedTimes} \cup {Null, Num(5)}

\* a call _time_to_ms(time_str) is about to run
InitTime ==
  /\ impl \in {"api", "whisper_api"}
  /\ binExists = TRUE /\ binWhich = TRUE
  /\ modelDirs = {}
  /\ req = [r \in Reqs |-> IdleReq]
  /\ fs = {}
  /\ arg \in {[fn |-> "_time_to_ms", time_str |-> v] : v \in TimeInputs}
  /\ ret = NoCall

call_time_to_ms ==
  /\ arg.fn = "_time_to_ms" /\ ret.fn = "none"
  /\ ret' = [fn |-> "_time_to_ms", value |-> time_to_ms(arg.time_str)]
  /\ UNCHANGED <<impl, binExists, binWhich, modelDirs, req, fs, arg>>

NextTime == call_time_to_ms

SpecTime == InitTime /\ [][NextTime]_vars

\* a field of a time string is numeric: decimal digits only
IsNumber(s) == s # <<>> /\ \A i \in 1..Len(s) : s[i] \in Digits

\* the time string has the form H:M:S.m with four numbers
WellFormedTime(s) ==
  LET parts == Split(s, ":") IN
  /\ Len(parts) = 3
  /\ IsNumber(parts[1]) /\ IsNumber(parts[2])
  /\ LET s_parts == Split(parts[3], ".") IN
       Len(s_parts) = 2 /\ IsNumber(s_parts[1]) /\ IsNumber(s_parts[2])

\* the value of a well-formed time string
TimeValue(s) ==
  LET parts == Split(s, ":")
      s_parts == Split(parts[3], ".")
  IN DecVal(parts[1], 0) * 3600000 + DecVal(parts[2], 0) * 60000
       + DecVal(s_parts[1], 0) * 1000 + DecVal(s_parts[2], 0)

\* some component between the colons and dots is not a number
HasNonNumericField(s) ==
  \E i \in 1..Len(Split(s, ":")) :
    LET f == Split(Split(s, ":")[i], ".") IN
    \E j \in 1..Len(f) : ~IsNumber(f[j])

\* C14: _time_to_ms returns h*3600000 + m*60000 + s*1000 + ms for every
\* well-formed H:M:S.m string, and 0 for every string whose number of
\* colon-separated fields is not three or that has a non-numeric component,
\* and for every input that is not a string.
C14_TimeToMs ==
  (arg.fn = "_time_to_ms" /\ ret.fn = "_time_to_ms") =>
    /\ arg.time_str.t # "str" => ret.value = 0
    /\ arg.time_str.t = "str" =>
         LET s == arg.time_str.s IN
         /\ WellFormedTime(s) => ret.value = TimeValue(s)
         /\ (Len(Split(s, ":")) # 3 \/ HasNonNumericField(s)) => ret.value = 0

\* ---------------------------------------------------------------------------
\* _parse_whisper_output and the response built from it
\* ---------------------------------------------------------------------------

\* a JSON object of the artifact: an offsets or timestamps dict, a token, a
\* segment, the artifact itself; an absent key holds Missing
FromTo(from, to) == [t |-> "dict", from |-> from, to |-> to]
Token(text, offsets, p) ==
  [t |-> "dict", text |-> text, offsets |-> offsets, p |-> p]
Segment(tokens, text, timestamps) ==
  [t |-> "dict", tokens |-> tokens, text |-> text, timestamps |-> timestamps]
List(items) == [t |-> "list", items |-> items]
Data(transcription) == [t |-> "dict", transcription |-> transcription]

\* confidence 1.0 of a caption made from a segment, in thousandths
SegmentConfidence == 1000

\* int(x) of a JSON value
PyIntOf(v) ==
  CASE v.t = "num" -> Ok(v.n)
    [] v.t = "str" -> PyInt(v.s)
    [] OTHER -> Raise

\* float(x) of a JSON value, in thousandths
PyFloat(v) ==
  CASE v.t = "num" -> Ok(v)
    [] v.t = "str" ->
         LET i == PyInt(v.s) IN IF i.ok THEN Ok(Num(i.n * 1000)) ELSE Raise
    [] OTHER -> Raise

\* the confidence of a token's caption
Confidence(im, p) ==
  IF im = "api" THEN PyFloat(Get(p, Num(0))) ELSE Ok(Get(p, Num(0)))

SkipToken_empty_only(text) == text = <<>>

\* if not text or text.startswith("[")
SkipToken(text) == text = <<>> \/ Head(text) = "["

Emit_prepend(captions, c) == <<c>> \o captions

\* captions.append
Emit(captions, c) == Append(captions, c)

Caption(text, startMs, endMs, confidence) ==
  [text |-> text, startMs |-> startMs, endMs |-> endMs,
   confidence |-> confidence]

\* the body of the loop over a segment's tokens: the captions so far with
\* the token's caption, or the exception
TokenStep(im, token, captions) ==
  LET raw == Get(token.text, Str(<<>>)) IN
  IF raw.t # "str" THEN Raise
  ELSE
    LET text == Strip(raw.s) IN
    IF SkipToken(text) THEN Ok(captions)
    ELSE
      LET offsets == Get(token.offsets, FromTo(Missing, Missing)) IN
      IF offsets.t # "dict" THEN Raise
      ELSE
        LET from == PyIntOf(Get(offsets.from, Num(0)))
            to == PyIntOf(Get(offsets.to, Num(0)))
            conf == Confidence(im, token.p)
        IN IF from.ok /\ to.ok /\ conf.ok
           THEN Ok(Emit(captions, Caption(text, from.n, to.n, conf.n)))
           ELSE Raise

\* for token in segment["tokens"]: the captions after the first n tokens
RECURSIVE TokenLoop(_, _, _, _)
TokenLoop(im, tokens, n, captions) ==
  IF n = 0 THEN Ok(captions)
  ELSE LET before == TokenLoop(im, tokens, n - 1, captions) IN
       IF before.ok THEN TokenStep(im, tokens[n], before.n) ELSE Raise

\* the else branch: one caption from the segment's own text and timestamps
SegmentStep(segment, captions) ==
  LET raw == Get(segment.text, Str(<<>>)) IN
  IF raw.t # "str" THEN Raise
  ELSE
    LET text == Strip(raw.s) IN
    IF text = <<>> THEN Ok(captions)
    ELSE
      LET ts == Get(segment.timestamps, FromTo(Missing, Missing))
          zero == Str(<<"0", "0", ":", "0", "0", ":", "0", "0", ".",
                        "0", "0", "0">>)
      IN IF ts.t # "dict" THEN Raise
         ELSE Ok(Emit(captions,
                      Caption(text,
                              time_to_ms(Get(ts.from, zero)),
                              time_to_ms(Get(ts.to, zero)),
                              Num(SegmentConfidence))))

\* the body of the loop over the segments
SegmentBody(im, word_level, segment, captions) ==
  IF word_level /\ segment.tokens.t # "missing"
  THEN IF segment.tokens.t = "list"
       THEN TokenLoop(im, segment.tokens.items,
                      Len(segment.tokens.items), captions)
       ELSE Raise
  ELSE SegmentStep(segment, captions)

\* for segment in data.get("transcription", []): the captions after the
\* first n segments
RECURSIVE SegmentLoop(_, _, _, _)
SegmentLoop(im, word_level, segments, n) ==
  IF n = 0 THEN Ok(<<>>)
  ELSE LET before == SegmentLoop(im, word_level, segments, n - 1) IN
       IF before.ok
       THEN SegmentBody(im, word_level, segments[n], before.n)
       ELSE Raise

\* _parse_whisper_output(data, word_level): the captions, or the exception
parse_whisper_output(im, data, word_level) ==
  IF data.t # "dict" THEN Raise
  ELSE
    LET transcription == Get(data.transcription, List(<<>>)) IN
    IF transcription.t # "list" THEN Raise
    ELSE SegmentLoop(im, word_level, transcription.items,
                     Len(transcription.items))

\* sep.join(texts)
RECURSIVE Join(_, _)
Join(sep, texts) ==
  IF texts = <<>> THEN <<>>
  ELSE IF Len(texts) = 1 THEN texts[1]
  ELSE texts[1] \o sep \o Join(sep, Tail(texts))

\* " ".join(c["text"] for c in captions)
FullText(captions) ==
  Join(<<" ">>, [i \in 1..Len(captions) |-> captions[i].text])

\* the longest token list of a segment and the longest list of segments
\* drawn from the engine's records
MaxToks == 2
MaxSegs == 2

\* "00:00:01.500", "00:00:02.000", "-1:00:00.000"
T1500 == <<"0", "0", ":", "0", "0", ":", "0", "1", ".", "5", "0", "0">>
T2000 == <<"0", "0", ":", "0", "0", ":", "0", "2", ".", "0", "0", "0">>
TNeg == <<"-", "1", ":", "0", "0", ":", "0", "0", ".", "0", "0", "0">>

EngineStamps == FromTo(Str(T1500), Str(T2000))
EngineOffsets == FromTo(Num(0), Num(400))

\* tokens as the engine writes them: " yo ", "[B]"
EngineTokens ==
  { Token(Str(<<" ", "y", "o", " ">>), FromTo(Num(400), Num(900)), Num(800)),
    Token(Str(<<"[", "B", "]">>), FromTo(Num(900), Num(950)), Num(100)) }

TokenLists == UNION {[1..n -> EngineTokens] : n \in 0..MaxToks}

\* segments as the engine writes them: with a token list (--output-json-full)
\* or without, with text "hi", " " or " yo "
EngineSegments ==
  {Segment(List(l), Str(<<"o", "k">>), EngineStamps) : l \in TokenLists}
    \cup {Segment(Missing, Str(x), EngineStamps) :
            x \in {<<"h", "i">>, <<" ">>, <<" ", "y", "o", " ">>}}

EngineData ==
  {Data(List(ss)) :
     ss \in UNION {[1..n -> EngineSegments] : n \in 0..MaxSegs}}

\* a token of an artifact that is not as the engine writes it: a key is
\* absent, null or of another type, or a number is negative
OddTokens ==
  {Token(x, EngineOffsets, Num(900)) :
     x \in {Str(<<" ">>), Str(<<" ", "[", "x">>), Missing, Null, Num(3)}}
    \cup
  {Token(Str(<<"h", "i">>), x, Num(900)) :
     x \in {Missing, Null, FromTo(Missing, Num(5)),
            FromTo(Str(<<"7">>), Str(<<"9">>)), FromTo(Str(<<"x">>), Num(1)),
            FromTo(Null, Num(1)), FromTo(Num(0 - 5), Num(0 - 1))}}
    \cup
  {Token(Str(<<"h", "i">>), EngineOffsets, x) :
     x \in {Missing, Null, Str(<<"x">>), Str(<<"1">>)}}

OddSegments ==
  {Segment(Missing, x, EngineStamps) : x \in {Missing, Null, Num(3)}}
    \cup
  {Segment(Missing, Str(<<"h", "i">>), x) :
     x \in {Missing, Null, FromTo(Missing, Missing), FromTo(Null, Num(3)),
            FromTo(Str(<<"b", "a", "d">>), Str(<<"1", ":", "2">>)),
            FromTo(Str(TNeg), Str(T2000))}}

\* artifacts with one odd item next to items as the engine writes them, and
\* artifacts without a transcription list
OddData ==
  {Data(List(<<Segment(List(<<Token(Str(<<"h", "i">>), EngineOffsets,
                                     Num(900)), x>>),
                        Str(<<"o", "k">>), EngineStamps)>>)) :
     x \in OddTokens}
    \cup
  {Data(List(<<Segment(Missing, Str(<<"h", "i">>), EngineStamps), y>>)) :
     y \in OddSegments}
    \cup {Data(Missing), Data(Null), Null}

\* json.load has returned the artifact and transcribe is about to extract
InitParse ==
  /\ impl \in {"api", "whisper_api"}
  /\ binExists = TRUE /\ binWhich = TRUE
  /\ modelDirs = {}
  /\ req = [r \in Reqs |-> IdleReq]
  /\ fs = {}
  /\ arg \in {[fn |-> "_parse_whisper_output", data |-> d, word_level |-> w] :
                d \in EngineData \cup OddData, w \in BOOLEAN}
  /\ ret = NoCall

\* captions = _parse_whisper_output(...); full_text = " ".join(...); return
\* the success response; an exception leaves the handler and is answered 500
transcribe_extract ==
  /\ arg.fn = "_parse_whisper_output" /\ ret.fn = "none"
  /\ LET r == parse_whisper_output(impl, arg.data, arg.word_level) IN
     ret' = IF r.ok
            THEN [fn |-> "transcribe", status |-> 200, captions |-> r.n,
                  full_text |-> FullText(r.n)]
            ELSE [fn |-> "transcribe", status |-> 500,
                  detail |-> "Internal Server Error"]
  /\ UNCHANGED <<impl, binExists, binWhich, modelDirs, req, fs, arg>>

NextParse == transcribe_extract

SpecParse == InitParse /\ [][NextParse]_vars

\* ---------------------------------------------------------------------------
\* Claims about the extractor
\* ---------------------------------------------------------------------------

\* transcribe has extracted (or failed to extract) from the artifact arg.data
Extracted == arg.fn = "_parse_whisper_output" /\ ret.fn = "transcribe"

\* the artifact has a transcription list
HasList(data) == data.t = "dict" /\ data.transcription.t = "list"

IsBlank(raw) == \A k \in 1..Len(raw) : raw[k] \in Whitespace

\* the first character after the leading whitespace is "["
BracketFirst(raw) ==
  \E i \in 1..Len(raw) :
    raw[i] = "[" /\ \A k \in 1..(i - 1) : raw[k] \in Whitespace

\* out is raw without its leading and trailing whitespace
IsTrimOf(out, raw) ==
  /\ \E i \in 1..(Len(raw) + 1), j \in 0..Len(raw) :
       /\ out = SubSeq(raw, i, j)
       /\ \A k \in 1..(i - 1) : raw[k] \in Whitespace
       /\ \A k \in (j + 1)..Len(raw) : raw[k] \in Whitespace
  /\ out # <<>> => (out[1] \notin Whitespace /\ out[Len(out)] \notin Whitespace)

\* every field of the token is present and of the type the engine writes
WellFormedToken(tok) ==
  /\ tok.text.t = "str"
  /\ tok.offsets.t = "dict"
  /\ tok.offsets.from.t = "num" /\ tok.offsets.to.t = "num"
  /\ tok.p.t = "num"

WellFormedSegment(sg) ==
  /\ sg.text.t = "str"
  /\ sg.timestamps.t = "dict"
  /\ sg.timestamps.from.t = "str" /\ sg.timestamps.to.t = "str"
  /\ \/ sg.tokens.t = "missing"
     \/ /\ sg.tokens.t = "list"
        /\ \A i \in 1..Len(sg.tokens.items) :
             WellFormedToken(sg.tokens.items[i])

WellFormedData(data) ==
  /\ HasList(data)
  /\ \A i \in 1..Len(data.transcription.items) :
       WellFormedSegment(data.transcription.items[i])

\* every segment of the artifact has a token list / none has
AllWithTokens(data) ==
  \A i \in 1..Len(data.transcription.items) :
    data.transcription.items[i].tokens.t = "list"
NoneWithTokens(data) ==
  \A i \in 1..Len(data.transcription.items) :
    data.transcription.items[i].tokens.t = "missing"

\* the tokens of the segments, in the artifact's order
RECURSIVE AllTokens(_)
AllTokens(segments) ==
  IF segments = <<>> THEN <<>>
  ELSE Head(segments).tokens.items \o AllTokens(Tail(segments))

SkippedToken(tok) == IsBlank(tok.text.s) \/ BracketFirst(tok.text.s)
KeptToken(tok) == ~SkippedToken(tok)
KeptSegment(sg) == ~IsBlank(sg.text.s)

\* C11: in word-level mode, for segments that have a token list, a token
\* whose trimmed text is empty or begins with "[" produces no caption, and
\* every other token produces exactly one caption: its text is the trimmed
\* token text, its startMs and endMs are the token's offsets and its
\* confidence is the token's probability.
C11_WordLevelTokens ==
  (Extracted /\ arg.word_level /\ WellFormedData(arg.data)
     /\ AllWithTokens(arg.data)) =>
    LET kept == SelectSeq(AllTokens(arg.data.transcription.items), KeptToken)
    IN /\ ret.status = 200
       /\ Len(ret.captions) = Len(kept)
       /\ \A k \in 1..Len(kept) :
            /\ IsTrimOf(ret.captions[k].text, kept[k].text.s)
            /\ ret.captions[k].startMs = kept[k].offsets.from.n
            /\ ret.captions[k].endMs = kept[k].offsets.to.n
            /\ ret.captions[k].confidence = kept[k].p

C11_Witness ==
  /\ Extracted /\ arg.word_level /\ WellFormedData(arg.data)
  /\ AllWithTokens(arg.data)
  /\ \E i \in 1..Len(AllTokens(arg.data.transcription.items)) :
       BracketFirst(AllTokens(arg.data.transcription.items)[i].text.s)
  /\ ret.status = 200 /\ Len(ret.captions) = 1
  /\ ret.captions[1].text = <<"y", "o">>
  /\ ret.captions[1].startMs = 400 /\ ret.captions[1].endMs = 900
  /\ ret.captions[1].confidence = Num(800)

\* the captions are those of the segments, one each, in order
SegmentCaptionsOf(captions, segments) ==
  /\ Len(captions) = Len(segments)
  /\ \A k \in 1..Len(segments) :
       /\ IsTrimOf(captions[k].text, segments[k].text.s)
       /\ captions[k].startMs = time_to_ms(segments[k].timestamps.from)
       /\ captions[k].endMs = time_to_ms(segments[k].timestamps.to)
       /\ captions[k].confidence = Num(SegmentConfidence)

\* C12 as stated: in word-level mode every segment that has no token list
\* yields exactly one caption, from its own text and timestamps, with
\* confidence 1.0.
C12_EverySegmentOneCaption ==
  (Extracted /\ arg.word_level /\ WellFormedData(arg.data)
     /\ NoneWithTokens(arg.data)) =>
    /\ ret.status = 200
    /\ SegmentCaptionsOf(ret.captions, arg.data.transcription.items)

\* C12 amended: in word-level mode every segment that has no token list and
\* whose trimmed text is not empty yields exactly one caption, with the
\* trimmed text, the timestamps converted by _time_to_ms and confidence 1.0;
\* a segment whose trimmed text is empty yields none.
C12_NonEmptySegmentOneCaption ==
  (Extracted /\ arg.word_level /\ WellFormedData(arg.data)
     /\ NoneWithTokens(arg.data)) =>
    /\ ret.status = 200
    /\ SegmentCaptionsOf(ret.captions,
                         SelectSeq(arg.data.transcription.items, KeptSegment))

C12_Witness ==
  /\ Extracted /\ arg.word_level /\ WellFormedData(arg.data)
  /\ NoneWithTokens(arg.data)
  /\ Len(arg.data.transcription.items) = 2
  /\ IsBlank(arg.data.transcription.items[1].text.s)
  /\ ret.status = 200 /\ Len(ret.captions) = 1
  /\ ret.captions[1].text = <<"y", "o">>
  /\ ret.captions[1].startMs = 1500 /\ ret.captions[1].endMs = 2000

\* the engine's records in the artifact's order: the tokens of a segment
\* that is read token by token, the segment itself otherwise
RECURSIVE Records(_, _)
Records(segments, word_level) ==
  IF segments = <<>> THEN <<>>
  ELSE
    LET sg == Head(segments)
        own ==
          IF word_level /\ sg.tokens.t = "list"
          THEN [i \in 1..Len(sg.tokens.items) |->
                  [raw |-> sg.tokens.items[i].text.s,
                   kept |-> KeptToken(sg.tokens.items[i]),
                   startMs |-> sg.tokens.items[i].offsets.from.n,
                   endMs |-> sg.tokens.items[i].offsets.to.n]]
          ELSE <<[raw |-> sg.text.s,
                  kept |-> KeptSegment(sg),
                  startMs |-> time_to_ms(sg.timestamps.from),
                  endMs |-> time_to_ms(sg.timestamps.to)]>>
    IN own \o Records(Tail(segments), word_level)

KeptRecord(rec) == rec.kept

\* the place where the k-th text starts in the texts joined by one space
RECURSIVE JoinedStart(_, _)
JoinedStart(captions, k) ==
  IF k = 1 THEN 1
  ELSE JoinedStart(captions, k - 1) + Len(captions[k - 1].text) + 1

\* out is the caption texts in order with one space between neighbours
SpaceJoined(out, captions) ==
  LET n == Len(captions) IN
  IF n = 0 THEN out = <<>>
  ELSE
    /\ Len(out) = JoinedStart(captions, n) + Len(captions[n].text) - 1
    /\ \A k \in 1..n :
         LET b == JoinedStart(captions, k) IN
         /\ SubSeq(out, b, b + Len(captions[k].text) - 1) = captions[k].text
         /\ k < n => out[b + Len(captions[k].text)] = " "

OddSegmentsOf(data) ==
  {i \in 1..Len(data.transcription.items) :
     ~WellFormedSegment(data.transcription.items[i])}

\* C15: when one token or segment of an artifact is malformed (a text,
\* offsets, timestamps or probability field is absent or of another type),
\* extraction does not raise: the request ends in the success response, and
\* a well-formed first item is still extracted.
C15_ExtractionNeverRaises ==
  (Extracted /\ HasList(arg.data)
     /\ Cardinality(OddSegmentsOf(arg.data)) <= 1) =>
    /\ ret.status = 200
    /\ LET segments == arg.data.transcription.items
       IN (/\ segments # <<>>
           /\ segments[1].text.t = "str"
           /\ ~arg.word_level \/ segments[1].tokens.t = "missing"
           /\ KeptSegment(segments[1])) =>
            /\ Len(ret.captions) >= 1
            /\ IsTrimOf(ret.captions[1].text, segments[1].text.s)

\* C16: every caption of a response has a text that is not empty and has no
\* whitespace at either end, a startMs and an endMs that are non-negative
\* integers, and confidence 1.0 when it was made from a segment.
C16_CaptionInvariants ==
  (Extracted /\ ret.status = 200) =>
    \A k \in 1..Len(ret.captions) :
      LET c == ret.captions[k] IN
      /\ c.text # <<>>
      /\ c.text[1] \notin Whitespace /\ c.text[Len(c.text)] \notin Whitespace
      /\ c.startMs \in Nat /\ c.endMs \in Nat
      /\ (~arg.word_level \/ NoneWithTokens(arg.data)) =>
           c.confidence = Num(SegmentConfidence)

\* ---------------------------------------------------------------------------
\* Claims about the temporary files and the stages of a request
\* ---------------------------------------------------------------------------

\* C18: the paths that cleanup removes contain every path the request may
\* have created, with and without conversion: the staged upload, the
\* converted copy, the primary output artifact and the fallback-name output
\* artifact; so the candidate that the lookup reads is one of them.
C18_CleanupCoversTempPaths ==
  \A r \in Reqs :
    InFlight(r) =>
      /\ TempPaths(req[r]) \subseteq CleanupPaths(req[r].tmp_path)
      /\ \A which \in {"primary", "fallback"} :
           JsonFile(req[r], which) \in CleanupPaths(req[r].tmp_path)

\* the stages a handler may go to from a stage
StageOrder ==
  [ idle |-> {"staging", "done"},
    staging |-> {"staging", "converting", "invoking", "done"},
    converting |-> {"invoking", "done"},
    invoking |-> {"done"},
    done |-> {} ]

\* C19: a request goes through its stages only in the order availability
\* check, staging, conversion (when the extension is not wav), engine,
\* lookup, extraction, response; the engine is started only after the
\* availability check passed and staging and any needed conversion
\* succeeded; the converter and the engine are started at most once; nothing
\* happens after a terminal error; and whenever the handler ends after
\* staging began, cleanup has run: the staged upload is gone.
C19_StagesInOrder ==
  [][\A r \in Reqs :
       req'[r] # req[r] =>
         /\ req'[r].pc \in StageOrder[req[r].pc]
         /\ req'[r].conv_runs <= 1 /\ req'[r].eng_runs <= 1
         /\ req'[r].pc = "converting" =>
              (req[r].staged /\ NeedsConversion(req[r].suffix))
         /\ req'[r].pc = "invoking" =>
              /\ req[r].staged /\ binary_path # None /\ find_model_path # None
              /\ IF NeedsConversion(req[r].suffix)
                 THEN req'[r].conv = "exit0" ELSE req'[r].conv = "none"
         /\ req'[r].opened # "none" => req'[r].eng = "exit0"
         /\ req'[r].extracted => req'[r].opened # "none"
         /\ req'[r].status = 200 =>
              (req'[r].kind = "transcribe" => req'[r].extracted)
         /\ (req[r].staged /\ req'[r].pc = "done") =>
              \A x \in fs' : x.path = req[r].tmp_path => x.by # r]_vars

\* the engine of the request wrote the candidate that its lookup opened
WroteOpened(q) ==
  \/ q.opened = "primary" /\ q.wrote \in {"primary", "both"}
  \/ q.opened = "fallback" /\ q.wrote \in {"fallback", "both"}

\* C20: the cleanup of a request removes no file, and its lookup reads no
\* file, that another request in flight wrote: the paths it unlinks and the
\* candidate it opens are its own.
C20_NoForeignFile ==
  [][\A r, q \in Reqs :
       (/\ r # q /\ InFlight(r) /\ InFlight(q)
        /\ req'[r].pc = "done") =>
         /\ \A x \in fs :
              x.by = q => x.path \notin CleanupPaths(req[r].tmp_path)
         /\ (req'[r].opened # "none" /\ ~WroteOpened(req'[r])) =>
              \A x \in fs :
                x.path = JsonFile(req[r], req'[r].opened) => x.by # q]_vars

\* ---------------------------------------------------------------------------
\* The two implementations side by side on one request
\* ---------------------------------------------------------------------------

\* timeout= of the engine's subprocess.run, in seconds
EngineTimeout(im) == IF im = "api" THEN 600 ELSE 300

\* how subprocess.run of the engine ends in an implementation, for an
\* engine that would run for run.secs seconds and exit with run.exit
EngineOutcome(im, run) ==
  IF ~binWhich THEN "cannot_start"
  ELSE IF run.secs > EngineTimeout(im) THEN "timeout"
  ELSE IF run.exit = 0 THEN "exit0" ELSE "nonzero"

\* what the client and the temporary directory see of one request
Response(status, captions, files) ==
  [status |-> status, captions |-> captions, files |-> files]

\* transcribe of an implementation, alone on the server, from the call to
\* the return: the response and the files left behind
Transcribe(im, a) ==
  IF binary_path_of(im) = None \/ find_model_path_of(im) = None
  THEN Response(503, <<>>, {})
  ELSE
    LET suffix == Suffix(a.filename)
        tmp_path == <<a.stem>> \o suffix
        q == [IdleReq EXCEPT !.suffix = suffix, !.tmp_path = tmp_path]
        fs0 == WriteFile({}, tmp_path, 1, "upload")
        convert == NeedsConversion(suffix)
        fs1 == IF convert /\ a.conv.wrote
               THEN WriteFile(fs0, tmp_path \o WAV, 1, "wav") ELSE fs0
        outcome == EngineOutcome(im, a.eng)
        fs2 == IF outcome \in {"exit0", "nonzero"}
               THEN EngineWrites(fs1, q, 1, a.eng.where, a.eng.what)
               ELSE fs1
        which == LocateOutput(fs2, q)
        parsed == parse_whisper_output(im, a.data, a.word_level)
    IN IF a.staging = "raise" THEN Response(500, <<>>, fs0)
       ELSE IF convert /\ a.conv.outcome = "nonzero"
       THEN Response(400, <<>>, Cleanup(fs1, tmp_path))
       ELSE IF outcome # "exit0"
       THEN Response(500, <<>>, Cleanup(fs2, tmp_path))
       ELSE IF which = "none"
       THEN Response(500, <<>>, Cleanup(fs2, tmp_path))
       ELSE IF ~JsonLoadsOf(im, FileAt(fs2, JsonFile(q, which)).what)
       THEN Response(500, <<>>, Cleanup(fs2, tmp_path))
       ELSE IF ~parsed.ok
       THEN Response(500, <<>>, Cleanup(fs2, tmp_path))
       ELSE Response(200, parsed.n, Cleanup(fs2, tmp_path))

\* the requests, converter runs and engine runs given to both
BothFilenames == {<<"a", ".", "w", "a", "v">>, <<"a", ".", "m", "p", "3">>}

BothConverterRuns ==
  {[outcome |-> "exit0", wrote |-> TRUE],
   [outcome |-> "nonzero", wrote |-> FALSE]}

BothEngineRuns ==
  [secs : {10, 400}, exit : {0, 1}, where : {"none", "primary", "fallback"},
   what : {"json_ok", "json_badutf8"}]

\* the artifact of an engine run that wrote one: a token " yo " with
\* probability 0.8, or with the probability as the string "1"
BothData ==
  {Data(List(<<Segment(List(<<Token(Str(<<" ", "y", "o", " ">>),
                                    EngineOffsets, p)>>),
                       Str(<<"o", "k">>), EngineStamps)>>)) :
     p \in {Num(800), Str(<<"1">>)}}

\* one request is about to be given to both implementations in the same
\* environment
InitBoth ==
  /\ impl = "api"
  /\ binExists \in BOOLEAN
  /\ binWhich \in BOOLEAN
  /\ modelDirs \in ModelLayouts
  /\ req = [r \in Reqs |-> IdleReq]
  /\ fs = {}
  /\ arg \in [fn : {"transcribe"}, filename : BothFilenames,
              stem : {CHOOSE s \in Stems : TRUE},
              staging : {"ok", "raise"}, conv : BothConverterRuns,
              eng : BothEngineRuns, data : BothData, word_level : BOOLEAN]
  /\ ret = NoCall

transcribe_both ==
  /\ arg.fn = "transcribe" /\ ret.fn = "none"
  /\ ret' = [fn |-> "transcribe", api |-> Transcribe("api", arg),
             whisper_api |-> Transcribe("whisper_api", arg)]
  /\ UNCHANGED <<impl, binExists, binWhich, modelDirs, req, fs, arg>>

NextBoth == transcribe_both

SpecBoth == InitBoth /\ [][NextBoth]_vars

\* C17: given the same request in the same environment (binary at the path
\* or on the search path, model directories, converter and engine runs), the
\* two implementations return the same status and the same captions and
\* leave the same temporary files.
C17_ImplementationsAgree ==
  (arg.fn = "transcribe" /\ ret.fn = "transcribe") =>
    /\ ret.api.status = ret.whisper_api.status
    /\ ret.api.captions = ret.whisper_api.captions
    /\ ret.api.files = ret.whisper_api.files

====
